---- MODULE Spec2Model ----
(***************************************************************************)
(* A model of the retrieval pipeline scripts under src/scripts:            *)
(*   split_document.py       load a PDF, split its pages into chunks       *)
(*   generate_embeddings.py  embed the chunks, build and persist an index  *)
(*   visualize_embeddings.py load the persisted index, project and plot    *)
(*   proj1.py                split, embed, store in a collection, query    *)
(* Texts are sequences of one-character strings.  A piece of a text is a   *)
(* span [lo, hi] of positions of that text (empty when hi < lo), so that   *)
(* the position of every chunk inside its page stays known.                *)
(***************************************************************************)
EXTENDS Integers, Sequences, FiniteSets, TLC

(* ------------------------------ bounds -------------------------------- *)
MaxLen == 7
MaxChunkSize == 4
MaxPages == 2
MaxVecs == 2
MaxPeriod == 3
MaxQueryPages == 12

(* ------------------------------- state -------------------------------- *)
\* The splitter applied to one page text.
VARIABLES
    inText,         \* the page text
    inSize,         \* chunk_size
    inOverlap,      \* chunk_overlap
    outSpans,       \* the chunks returned, as spans of inText
    applied         \* whether the splitter was applied

splitVars == <<inText, inSize, inOverlap, outSpans, applied>>

\* The files and the script that runs.
VARIABLES
    pdf,            \* the file at FilePath: None, or Some(its page texts)
    indexFile,      \* the file at embeddings/faiss_index: None, or Some(content)
    script,         \* the entry point that runs
    pc,             \* the position in it
    sizeArg, overlapArg,  \* chunk_size and chunk_overlap of split_pdf_into_chunks
    pagesRead,      \* pages: the pages read from the lazy loader so far
    result,         \* what split_pdf_into_chunks returns: None or Some(chunks)
    log,            \* the records logged, in order
    calls,          \* the library entry points invoked
    faissIndex,     \* index: the faiss index held in memory, None or Some(index)
    exc,            \* the exception that escaped, "none" if none did
    exitCode        \* the process's exit code once it exited, -1 before

stageVars == <<pdf, indexFile, script, pc, sizeArg, overlapArg, pagesRead,
               result, log, calls, faissIndex, exc, exitCode>>

\* The query script's module-level names.
VARIABLES
    queryText,    \* query: the query text
    split_docs,   \* the chunks of the document
    embeddings,   \* their vectors, in the same order
    collection,   \* the entries added to the collection, in order
    inserted,     \* i: the number of entries added
    results,      \* the query's result
    printed       \* the hits printed so far

queryVars == <<queryText, split_docs, embeddings, collection, inserted, results,
               printed>>

(* --------------------------- text helpers ----------------------------- *)
SP == " "
NL == "\n"
Alphabet == {"a", SP, NL}
Whitespace == {SP, NL}

\* RecursiveCharacterTextSplitter's default separators: "\n\n", "\n", " ", "".
Separators == << <<NL, NL>>, <<NL>>, <<SP>>, <<>> >>

Span(lo, hi) == [lo |-> lo, hi |-> hi]
SpanLen(s) == IF s.hi < s.lo THEN 0 ELSE s.hi - s.lo + 1
Content(text, s) == SubSeq(text, s.lo, s.hi)

\* All texts over the alphabet of length at most n.
TextsUpTo(n) == UNION {[1..k -> Alphabet] : k \in 0..n}

(* ------------- RecursiveCharacterTextSplitter (langchain) ------------- *)
(* The splitter that split_pdf_into_chunks and proj1 construct with        *)
(* chunk_size and chunk_overlap and the library's defaults: the length     *)
(* function is len (characters), keep_separator is True (a separator stays *)
(* at the start of the piece that follows it, and pieces are joined with   *)
(* the empty string), strip_whitespace is True.                            *)

RECURSIVE strip_left(_, _, _), strip_right(_, _, _), matches(_, _, _, _),
          pop_overlap(_, _, _, _, _), merge_loop(_, _, _, _, _, _, _),
          split_text(_, _, _, _, _), split_loop(_, _, _, _, _, _, _)

strip_left(text, lo, hi) ==
    IF lo <= hi /\ text[lo] \in Whitespace THEN strip_left(text, lo + 1, hi) ELSE lo

strip_right(text, lo, hi) ==
    IF lo <= hi /\ text[hi] \in Whitespace THEN strip_right(text, lo, hi - 1) ELSE hi

\* str.strip() on the piece s of text.
strip(text, s) ==
    LET lo == strip_left(text, s.lo, s.hi)
    IN  Span(lo, strip_right(text, lo, s.hi))

\* _join_docs: the pieces joined (they are consecutive, the separator is ""),
\* stripped; None (here: no document) when nothing is left.
join_docs(text, cur) ==
    IF cur = <<>> THEN <<>>
    ELSE LET joined == strip(text, Span(cur[1].lo, cur[Len(cur)].hi))
         IN  IF SpanLen(joined) = 0 THEN <<>> ELSE <<joined>>

\* A flush test that lets one character too many through.
needs_flush_late(total, len, chunk_size) == total + len > chunk_size + 1

\* _merge_splits: "total + _len + separator_len > self._chunk_size", with
\* separator_len = 0.
needs_flush(total, len, chunk_size) == total + len > chunk_size

\* A pop condition that keeps one character more than chunk_overlap.
keep_popping_late(total, len, chunk_size, chunk_overlap) ==
    \/ total > chunk_overlap + 1
    \/ (total + len > chunk_size /\ total > 0)

\* _merge_splits: the condition of the while loop that drops pieces from the
\* front of current_doc after a document was emitted.
keep_popping(total, len, chunk_size, chunk_overlap) ==
    \/ total > chunk_overlap
    \/ (total + len > chunk_size /\ total > 0)

pop_overlap(cur, total, len, chunk_size, chunk_overlap) ==
    IF keep_popping(total, len, chunk_size, chunk_overlap)
    THEN pop_overlap(Tail(cur), total - SpanLen(Head(cur)), len,
                     chunk_size, chunk_overlap)
    ELSE [cur |-> cur, total |-> total]

\* _merge_splits: the for loop over splits, then the final _join_docs.
merge_loop(text, splits, docs, cur, total, chunk_size, chunk_overlap) ==
    IF splits = <<>> THEN docs \o join_docs(text, cur)
    ELSE LET d == Head(splits)
             len == SpanLen(d)
             flush == needs_flush(total, len, chunk_size) /\ cur # <<>>
             emitted == IF flush THEN docs \o join_docs(text, cur) ELSE docs
             kept == IF flush
                     THEN pop_overlap(cur, total, len, chunk_size, chunk_overlap)
                     ELSE [cur |-> cur, total |-> total]
         IN  merge_loop(text, Tail(splits), emitted, Append(kept.cur, d),
                        kept.total + len, chunk_size, chunk_overlap)

merge_splits(text, splits, chunk_size, chunk_overlap) ==
    merge_loop(text, splits, <<>>, <<>>, 0, chunk_size, chunk_overlap)

\* The starts of the leftmost non-overlapping occurrences of sep in text[p..hi].
matches(text, p, hi, sep) ==
    IF p + Len(sep) - 1 > hi THEN <<>>
    ELSE IF SubSeq(text, p, p + Len(sep) - 1) = sep
         THEN <<p>> \o matches(text, p + Len(sep), hi, sep)
         ELSE matches(text, p + 1, hi, sep)

\* re.search(separator, text) on the piece s.
found(text, s, sep) == matches(text, s.lo, s.hi, sep) # <<>>

\* _split_text_with_regex with keep_separator=True: list(text) for the empty
\* separator, else the text cut before every occurrence of the separator;
\* empty pieces are dropped.
split_text_with_regex(text, s, sep) ==
    IF sep = <<>> THEN [i \in 1..SpanLen(s) |-> Span(s.lo + i - 1, s.lo + i - 1)]
    ELSE LET m == matches(text, s.lo, s.hi, sep)
             piece(j) == IF j = 0
                         THEN Span(s.lo, IF m = <<>> THEN s.hi ELSE m[1] - 1)
                         ELSE Span(m[j], IF j = Len(m) THEN s.hi ELSE m[j + 1] - 1)
             all == [j \in 1..(Len(m) + 1) |-> piece(j - 1)]
         IN  SelectSeq(all, LAMBDA x : SpanLen(x) > 0)

\* _split_text: the index of the separator used: the first that is "" or
\* occurs in the text; the last one when none does.
separator_index(text, s, separators) ==
    LET hits == {i \in 1..Len(separators) :
                    separators[i] = <<>> \/ found(text, s, separators[i])}
    IN  IF hits = {} THEN Len(separators)
        ELSE CHOOSE i \in hits : \A j \in hits : i <= j

\* _split_text: new_separators, empty when the separator used is "".
new_separators(text, s, separators) ==
    LET i == separator_index(text, s, separators)
    IN  IF separators[i] = <<>> \/ ~found(text, s, separators[i]) THEN <<>>
        ELSE SubSeq(separators, i + 1, Len(separators))

\* _split_text: "if self._length_function(s) < self._chunk_size".
is_good_split(x, chunk_size) == SpanLen(x) < chunk_size

\* _split_text: the loop over splits.
split_loop(text, splits, good, final, new_seps, chunk_size, chunk_overlap) ==
    IF splits = <<>>
    THEN IF good # <<>>
         THEN final \o merge_splits(text, good, chunk_size, chunk_overlap)
         ELSE final
    ELSE LET x == Head(splits) IN
         IF is_good_split(x, chunk_size)
         THEN split_loop(text, Tail(splits), Append(good, x), final, new_seps,
                         chunk_size, chunk_overlap)
         ELSE LET flushed == IF good # <<>>
                             THEN final \o merge_splits(text, good, chunk_size,
                                                        chunk_overlap)
                             ELSE final
                  inner == IF new_seps = <<>> THEN <<x>>
                           ELSE split_text(text, x, new_seps, chunk_size,
                                           chunk_overlap)
              IN  split_loop(text, Tail(splits), <<>>, flushed \o inner,
                             new_seps, chunk_size, chunk_overlap)

\* _split_text(text, separators): the spans of the chunks of the piece s.
split_text(text, s, separators, chunk_size, chunk_overlap) ==
    LET i == separator_index(text, s, separators)
    IN  split_loop(text, split_text_with_regex(text, s, separators[i]), <<>>, <<>>,
                   new_separators(text, s, separators), chunk_size, chunk_overlap)

\* RecursiveCharacterTextSplitter.split_text on a whole page text.
SplitSpans(text, chunk_size, chunk_overlap) ==
    split_text(text, Span(1, Len(text)), Separators, chunk_size, chunk_overlap)

(* ----------------- the splitter applied to one page ------------------- *)

SplitInit ==
    /\ inText \in TextsUpTo(MaxLen)
    /\ inSize \in 1..MaxChunkSize
    /\ inOverlap \in 0..(inSize - 1)
    /\ outSpans = <<>>
    /\ applied = FALSE

\* text_splitter.split_text(page_content) for the page drawn by SplitInit.
ApplySplit ==
    /\ UNCHANGED <<stageVars, queryVars>>
    /\ ~applied
    /\ outSpans' = SplitSpans(inText, inSize, inOverlap)
    /\ applied' = TRUE
    /\ UNCHANGED <<inText, inSize, inOverlap>>

\* The number of positions of the page that chunk i and chunk i+1 share.
Overlap(spans, i) ==
    IF spans[i].hi >= spans[i + 1].lo THEN spans[i].hi - spans[i + 1].lo + 1 ELSE 0

AdjacentPairs(spans) == 1..(Len(spans) - 1)

\* C1: for chunk_size > chunk_overlap >= 0 and every page text, every chunk
\* the splitter returns is a piece of the page of at most chunk_size characters.
C1_ChunkWithinSize ==
    applied =>
        \A i \in 1..Len(outSpans) :
            /\ 1 <= outSpans[i].lo /\ outSpans[i].hi <= Len(inText)
            /\ Len(Content(inText, outSpans[i])) <= inSize

\* C1 witness: a page longer than chunk_size was split into several chunks,
\* one of them of exactly chunk_size characters.
C1_Witness ==
    /\ applied
    /\ Len(inText) > inSize
    /\ Len(outSpans) >= 2
    /\ \E i \in 1..Len(outSpans) : SpanLen(outSpans[i]) = inSize

None == <<>>
Some(x) == <<x>>
Get(v) == v[1]

FilePath == "data/raw/TA-9-2024-0138_EN.pdf"

\* The page texts the PDF at FilePath is drawn from.
PageTexts ==
    { <<>>,
      <<"a", "b">>,
      <<"b", SP, "a", "a">>,
      <<"a", NL, NL, "b", SP, "b">> }

PdfFiles == UNION {[1..n -> PageTexts] : n \in 0..MaxPages}

\* PyPDFLoader: page number i (from 0) of the file as a Document.
Page(file, i) ==
    [page_content |-> file[i + 1], metadata |-> [source |-> FilePath, page |-> i]]

\* A stored vector; a faiss index file holds the dimension, the number of
\* vectors and the vectors' coordinates in one flat array.
VecChoices == {<<0, 1>>, <<1, 0>>}
VecLists == UNION {[1..n -> VecChoices] : n \in 0..MaxVecs}

RECURSIVE Flatten(_)
Flatten(rows) == IF rows = <<>> THEN <<>> ELSE Head(rows) \o Flatten(Tail(rows))

\* faiss.write_index of a flat index.
write_index(index) ==
    [d |-> index.d, ntotal |-> index.ntotal, codes |-> Flatten(index.xb)]

\* faiss.read_index: the rows are cut out of the flat array again.
read_index(file) ==
    [d |-> file.d, ntotal |-> file.ntotal,
     xb |-> [i \in 1..file.ntotal |->
                SubSeq(file.codes, (i - 1) * file.d + 1, i * file.d)]]

\* The dimension of the embedding model's vectors.
VecDim == Len(CHOOSE v \in VecChoices : TRUE)

\* A flat index over the given vectors, in their order.
FlatIndex(rows) == [d |-> VecDim, ntotal |-> Len(rows), xb |-> rows]

IndexFiles == {write_index(FlatIndex(rows)) : rows \in VecLists}

\* index.reconstruct_n(0, index.ntotal).
reconstruct_n(index, start, n) == SubSeq(index.xb, start + 1, start + n)

(* ---- text_splitter.split_documents: create_documents over the pages --- *)
RECURSIVE create_documents(_, _, _)

\* The chunks of one page, each with a copy of the page's metadata.
page_chunks(page, chunk_size, chunk_overlap) ==
    LET spans == SplitSpans(page.page_content, chunk_size, chunk_overlap)
    IN  [k \in 1..Len(spans) |->
            [page_content |-> Content(page.page_content, spans[k]),
             metadata |-> page.metadata]]

create_documents(pages, chunk_size, chunk_overlap) ==
    IF pages = <<>> THEN <<>>
    ELSE page_chunks(Head(pages), chunk_size, chunk_overlap)
         \o create_documents(Tail(pages), chunk_size, chunk_overlap)

\* A splitter that splits the text of all pages at once, under the first page's
\* metadata.
split_documents_joined(pages, chunk_size, chunk_overlap) ==
    IF pages = <<>> THEN <<>>
    ELSE page_chunks([page_content |-> Flatten([i \in 1..Len(pages) |->
                                                   pages[i].page_content]),
                      metadata |-> pages[1].metadata],
                     chunk_size, chunk_overlap)

split_documents(pages, chunk_size, chunk_overlap) ==
    create_documents(pages, chunk_size, chunk_overlap)

(* ------------------------- the stage scripts -------------------------- *)
DefaultChunkSize == 512
DefaultChunkOverlap == 100
EmbedChunkSize == 256
N_COMPONENTS == 2

\* The names split_document.py defines, and the name generate_embeddings.py
\* imports from it.
SplitDocumentNames == {"split_pdf_into_chunks", "main"}
ImportedName == "split_document_into_chunks"

\* HuggingFaceEmbeddings with normalize_embeddings=True: a unit vector per text.
Count(text, c) == Cardinality({k \in 1..Len(text) : text[k] = c})
Embed(text) == IF Count(text, "a") >= Count(text, "b") THEN <<1, 0>> ELSE <<0, 1>>

Logged(level, msg) == [level |-> level, msg |-> msg]

StageInit ==
    /\ pdf \in {None} \cup {Some(f) : f \in PdfFiles}
    /\ indexFile \in {None} \cup {Some(f) : f \in IndexFiles}
    /\ script = "none"
    /\ pc = "idle"
    /\ sizeArg = DefaultChunkSize
    /\ overlapArg = DefaultChunkOverlap
    /\ pagesRead = <<>>
    /\ result = None
    /\ log = <<>>
    /\ calls = {}
    /\ faissIndex = None
    /\ exc = "none"
    /\ exitCode = -1

\* python split_document.py: main() calls split_pdf_into_chunks(file_path).
SplitDocumentMain ==
    /\ UNCHANGED <<splitVars, queryVars>>
    /\ pc = "idle"
    /\ script' = "split_document"
    /\ pc' = "isfile"
    /\ UNCHANGED <<pdf, indexFile, sizeArg, overlapArg, pagesRead, result, log,
                   calls, faissIndex, exc, exitCode>>

\* A caller's split_pdf_into_chunks(file_path, chunk_size, chunk_overlap).
CallSplitPdfIntoChunks ==
    /\ UNCHANGED <<splitVars, queryVars>>
    /\ pc = "idle"
    /\ \E cs \in 1..MaxChunkSize : \E co \in 0..(cs - 1) :
          /\ sizeArg' = cs
          /\ overlapArg' = co
    /\ script' = "caller"
    /\ pc' = "isfile"
    /\ UNCHANGED <<pdf, indexFile, pagesRead, result, log, calls, faissIndex, exc,
                   exitCode>>

\* An existence check that finds every file.
file_missing_never(file) == FALSE

\* "if not os.path.isfile(file_path)".
file_missing(file) == file = None

\* split_pdf_into_chunks: the existence check; the loader is created only if
\* the file is there.
CheckIsFile ==
    /\ UNCHANGED <<splitVars, queryVars>>
    /\ pc = "isfile"
    /\ IF file_missing(pdf)
       THEN /\ log' = Append(log, Logged("ERROR", "file does not exist"))
            /\ result' = None
            /\ pc' = "return"
            /\ UNCHANGED calls
       ELSE /\ calls' = calls \cup {"PyPDFLoader.lazy_load"}
            /\ pc' = "load"
            /\ UNCHANGED <<log, result>>
    /\ UNCHANGED <<pdf, indexFile, script, sizeArg, overlapArg, pagesRead,
                   faissIndex, exc, exitCode>>

\* The page texts the lazy loader yields.
PagesOf(file) == IF file = None THEN <<>> ELSE Get(file)

\* pages = [page for page in lazy_pages]: one page per step.
LoadPage ==
    /\ UNCHANGED <<splitVars, queryVars>>
    /\ pc = "load"
    /\ Len(pagesRead) < Len(PagesOf(pdf))
    /\ pagesRead' = Append(pagesRead, Page(PagesOf(pdf), Len(pagesRead)))
    /\ UNCHANGED <<pdf, indexFile, script, pc, sizeArg, overlapArg, result,
                   log, calls, faissIndex, exc, exitCode>>

\* The lazy loader is exhausted: the splitter is created and splits the pages.
SplitPages ==
    /\ UNCHANGED <<splitVars, queryVars>>
    /\ pc = "load"
    /\ Len(pagesRead) = Len(PagesOf(pdf))
    /\ calls' = calls \cup {"RecursiveCharacterTextSplitter.split_documents"}
    /\ result' = Some(split_documents(pagesRead, sizeArg, overlapArg))
    /\ log' = log \o <<Logged("INFO", "loaded"), Logged("INFO", "split")>>
    /\ pc' = "return"
    /\ UNCHANGED <<pdf, indexFile, script, sizeArg, overlapArg, pagesRead,
                   faissIndex, exc, exitCode>>

\* split_pdf_into_chunks returns; main() then ends and the script exits.
Return ==
    /\ UNCHANGED <<splitVars, queryVars>>
    /\ pc = "return"
    /\ IF script = "split_document"
       THEN pc' = "exited" /\ exitCode' = 0
       ELSE pc' = "returned" /\ UNCHANGED exitCode
    /\ UNCHANGED <<pdf, indexFile, script, sizeArg, overlapArg, pagesRead,
                   result, log, calls, faissIndex, exc>>

\* python generate_embeddings.py.
GenerateEmbeddingsScript ==
    /\ UNCHANGED <<splitVars, queryVars>>
    /\ pc = "idle"
    /\ script' = "generate_embeddings"
    /\ pc' = "import"
    /\ UNCHANGED <<pdf, indexFile, sizeArg, overlapArg, pagesRead, result, log,
                   calls, faissIndex, exc, exitCode>>

\* "from split_document import split_document_into_chunks".
import_resolves(name) == name \in SplitDocumentNames

\* What main() of generate_embeddings.py gets from the splitter it calls with
\* chunk_size=256: None for a missing file, else the chunks of all pages.
embed_chunks(file) ==
    IF file_missing(file) THEN None
    ELSE Some(split_documents([k \in 1..Len(Get(file)) |-> Page(Get(file), k - 1)],
                              EmbedChunkSize, DefaultChunkOverlap))

\* FAISS.from_documents: one vector per chunk, in the chunks' order.
from_documents(chunks) ==
    FlatIndex([k \in 1..Len(chunks) |-> Embed(chunks[k].page_content)])

\* generate_embeddings.py, a step: the import at the top of the module, then
\* main(). main() passes what the splitter returned on to generate_embeddings,
\* which loads the model and hands the chunks to FAISS.from_documents; that
\* raises TypeError on None and IndexError on an empty list of chunks.
GenerateEmbeddingsStep ==
    /\ UNCHANGED <<splitVars, queryVars>>
    /\ script = "generate_embeddings"
    /\ pc \in {"import", "main"}
    /\ IF pc = "import"
       THEN /\ IF import_resolves(ImportedName)
               THEN pc' = "main" /\ UNCHANGED <<exc, exitCode>>
               ELSE pc' = "exited" /\ exc' = "ImportError" /\ exitCode' = 1
            /\ UNCHANGED <<indexFile, result, log, calls, faissIndex>>
       ELSE /\ result' = embed_chunks(pdf)
            /\ calls' = calls \cup {"HuggingFaceEmbeddings", "FAISS.from_documents"}
            /\ pc' = "exited"
            /\ IF result' = None
               THEN /\ log' = log \o <<Logged("ERROR", "file does not exist"),
                                      Logged("INFO", "model loaded")>>
                    /\ exc' = "TypeError"
                    /\ exitCode' = 1
                    /\ UNCHANGED <<indexFile, faissIndex>>
               ELSE IF Get(result') = <<>>
               THEN /\ log' = log \o <<Logged("INFO", "loaded"),
                                      Logged("INFO", "split"),
                                      Logged("INFO", "model loaded")>>
                    /\ exc' = "IndexError"
                    /\ exitCode' = 1
                    /\ UNCHANGED <<indexFile, faissIndex>>
               ELSE /\ log' = log \o <<Logged("INFO", "loaded"),
                                      Logged("INFO", "split"),
                                      Logged("INFO", "model loaded"),
                                      Logged("INFO", "embeddings generated"),
                                      Logged("INFO", "index saved")>>
                    /\ faissIndex' = Some(from_documents(Get(result')))
                    /\ indexFile' = Some(write_index(Get(faissIndex')))
                    /\ exitCode' = 0
                    /\ UNCHANGED exc
    /\ UNCHANGED <<pdf, script, sizeArg, overlapArg, pagesRead>>

\* python visualize_embeddings.py.
VisualizeMain ==
    /\ UNCHANGED <<splitVars, queryVars>>
    /\ pc = "idle"
    /\ script' = "visualize_embeddings"
    /\ pc' = "load_index"
    /\ UNCHANGED <<pdf, indexFile, sizeArg, overlapArg, pagesRead, result, log,
                   calls, faissIndex, exc, exitCode>>

\* load_faiss_index, and main()'s "if index is None: return".
LoadFaissIndex ==
    /\ UNCHANGED <<splitVars, queryVars>>
    /\ pc = "load_index"
    /\ IF indexFile = None
       THEN /\ log' = Append(log, Logged("ERROR", "index file not found"))
            /\ faissIndex' = None
            /\ pc' = "exited"
            /\ exitCode' = 0
       ELSE /\ faissIndex' = Some(read_index(Get(indexFile)))
            /\ log' = Append(log, Logged("INFO", "index loaded"))
            /\ pc' = "visualize"
            /\ UNCHANGED exitCode
    /\ UNCHANGED <<pdf, indexFile, script, sizeArg, overlapArg, pagesRead,
                   result, calls, exc>>

\* PCA(n_components=2).fit_transform raises ValueError on fewer samples (or
\* features) than components.
pca_raises(X) ==
    \/ Len(X) < N_COMPONENTS
    \/ \E k \in 1..Len(X) : Len(X[k]) < N_COMPONENTS

\* visualize_embeddings(index): reconstruct, project, plot; main() then ends.
VisualizeEmbeddings ==
    /\ UNCHANGED <<splitVars, queryVars>>
    /\ pc = "visualize"
    /\ LET X == reconstruct_n(Get(faissIndex), 0, Get(faissIndex).ntotal)
       IN  IF pca_raises(X)
           THEN /\ calls' = calls \cup {"PCA.fit_transform"}
                /\ exc' = "ValueError"
                /\ exitCode' = 1
           ELSE /\ calls' = calls \cup {"PCA.fit_transform", "plt.show"}
                /\ exitCode' = 0
                /\ UNCHANGED exc
    /\ pc' = "exited"
    /\ UNCHANGED <<pdf, indexFile, script, sizeArg, overlapArg, pagesRead,
                   result, log, faissIndex>>

(* ------------------------------ proj1.py ------------------------------ *)
N_RESULTS == 5

\* The page texts and the query texts the query script is run on; a document
\* is one to MaxPeriod page texts repeated up to MaxQueryPages pages.
QueryPageTexts == { <<>>, <<"a", "b">>, <<"b", SP, "a", "a">> }
QueryTexts == { <<"a">>, <<"b", "b">> }

QueryPdfFiles ==
    { [i \in 1..n |-> pat[((i - 1) % Len(pat)) + 1]] :
        n \in 0..MaxQueryPages,
        pat \in UNION {[1..k -> QueryPageTexts] : k \in 1..MaxPeriod} }

\* SentenceTransformer.encode: a vector per text, the same for the same text.
encode(text) == <<Count(text, "a"), Count(text, "b")>>

DigitChars == <<"0", "1", "2", "3", "4", "5", "6", "7", "8", "9">>

RECURSIVE str(_), int_digits(_, _), split(_, _, _)

\* str(i) of a non-negative integer: its decimal digits.
str(i) == IF i < 10 THEN <<DigitChars[i + 1]>>
          ELSE str(i \div 10) \o <<DigitChars[(i % 10) + 1]>>

\* An identifier numbered from one instead of zero.
format_id_from_one(i) == <<"d", "o", "c", "_", "c", "h", "u", "n", "k", "_">> \o str(i + 1)

\* f"doc_chunk_{i}".
format_id(i) == <<"d", "o", "c", "_", "c", "h", "u", "n", "k", "_">> \o str(i)

\* s.split(sep) for a one-character separator: the fields between separators.
split(s, sep, field) ==
    IF s = <<>> THEN <<field>>
    ELSE IF Head(s) = sep THEN <<field>> \o split(Tail(s), sep, <<>>)
         ELSE split(Tail(s), sep, Append(field, Head(s)))

DigitValue(c) == (CHOOSE d \in 1..10 : DigitChars[d] = c) - 1
IsDigit(c) == \E d \in 1..10 : DigitChars[d] = c

int_digits(s, acc) ==
    IF s = <<>> THEN acc ELSE int_digits(Tail(s), acc * 10 + DigitValue(Head(s)))

\* int(s): the number, or -1 where Python raises ValueError.
int(s) == IF s # <<>> /\ \A k \in 1..Len(s) : IsDigit(s[k]) THEN int_digits(s, 0)
          ELSE -1

\* The index taken from the second '_'-separated field.
chunk_index_wrong_field(doc_id) ==
    LET fields == split(doc_id, "_", <<>>)
    IN  IF Len(fields) < 2 THEN -1 ELSE int(fields[2])

\* int(doc_id.split('_')[2]): -1 where Python raises.
chunk_index(doc_id) ==
    LET fields == split(doc_id, "_", <<>>)
    IN  IF Len(fields) < 3 THEN -1 ELSE int(fields[3])

\* collection.add(ids=[id], embeddings=[embedding], metadatas=[metadata]).
collection_add(coll, id, embedding, metadata) ==
    Append(coll, [id |-> id, embedding |-> embedding, metadata |-> metadata])

\* The squared Euclidean distance of two vectors of the same dimension.
RECURSIVE distance(_, _)
distance(u, v) ==
    IF u = <<>> THEN 0
    ELSE (Head(u) - Head(v)) * (Head(u) - Head(v)) + distance(Tail(u), Tail(v))

\* The positions of the vectors xs from nearest to q on, ties in order of
\* position.
RECURSIVE nearest_first(_, _, _)
nearest_first(xs, q, left) ==
    IF left = {} THEN <<>>
    ELSE LET best == CHOOSE a \in left : \A b \in left :
                        \/ distance(xs[a], q) < distance(xs[b], q)
                        \/ distance(xs[a], q) = distance(xs[b], q) /\ a <= b
         IN  <<best>> \o nearest_first(xs, q, left \ {best})

Min(a, b) == IF a <= b THEN a ELSE b

\* collection.query(query_embeddings=[q], n_results=k): the identifiers and
\* distances of the k nearest entries, nearest first; k is clamped to the size
\* of the collection.
collection_query(coll, q, k) ==
    LET xs == [j \in 1..Len(coll) |-> coll[j].embedding]
        order == SubSeq(nearest_first(xs, q, 1..Len(coll)), 1, Min(k, Len(coll)))
    IN  [ids |-> [j \in 1..Len(order) |-> coll[order[j]].id],
         distances |-> [j \in 1..Len(order) |-> distance(xs[order[j]], q)]]

NoResults == [ids |-> <<>>, distances |-> <<>>]

QueryIdle ==
    /\ split_docs = <<>>
    /\ embeddings = <<>>
    /\ collection = <<>>
    /\ inserted = 0
    /\ results = NoResults
    /\ printed = <<>>

\* python proj1.py.
Proj1Script ==
    /\ UNCHANGED splitVars
    /\ pc = "idle"
    /\ script' = "proj1"
    /\ pc' = "split"
    /\ UNCHANGED <<pdf, indexFile, sizeArg, overlapArg, pagesRead, result, log,
                   calls, faissIndex, exc, exitCode>>
    /\ UNCHANGED queryVars

\* Lines 7 to 18: load the pages (PyPDFLoader raises ValueError for a file that
\* is not there), split them, create the collection, embed every chunk.
Proj1Split ==
    /\ UNCHANGED splitVars
    /\ script = "proj1"
    /\ pc = "split"
    /\ IF pdf = None
       THEN /\ exc' = "ValueError"
            /\ exitCode' = 1
            /\ pc' = "exited"
            /\ UNCHANGED <<pagesRead, split_docs, embeddings>>
       ELSE /\ pagesRead' = [k \in 1..Len(Get(pdf)) |-> Page(Get(pdf), k - 1)]
            /\ split_docs' = split_documents(pagesRead', DefaultChunkSize,
                                             DefaultChunkOverlap)
            /\ embeddings' = [k \in 1..Len(split_docs') |->
                                 encode(split_docs'[k].page_content)]
            /\ pc' = "insert"
            /\ UNCHANGED <<exc, exitCode>>
    /\ UNCHANGED <<pdf, indexFile, script, sizeArg, overlapArg, result, log,
                   calls, faissIndex, queryText, collection, inserted, results,
                   printed>>

\* One iteration of "for i, embedding in enumerate(embeddings)".
Proj1Insert ==
    /\ UNCHANGED splitVars
    /\ script = "proj1"
    /\ pc = "insert"
    /\ inserted < Len(embeddings)
    /\ collection' = collection_add(collection, format_id(inserted),
                                    embeddings[inserted + 1],
                                    [source |-> split_docs[inserted + 1].metadata.source,
                                     page |-> split_docs[inserted + 1].metadata.page])
    /\ inserted' = inserted + 1
    /\ UNCHANGED stageVars
    /\ UNCHANGED <<queryText, split_docs, embeddings, results, printed>>

\* The loop is over: the query.
Proj1Query ==
    /\ UNCHANGED splitVars
    /\ script = "proj1"
    /\ pc = "insert"
    /\ inserted = Len(embeddings)
    /\ results' = collection_query(collection, encode(queryText), N_RESULTS)
    /\ pc' = "print"
    /\ UNCHANGED <<pdf, indexFile, script, sizeArg, overlapArg, pagesRead,
                   result, log, calls, faissIndex, exc, exitCode>>
    /\ UNCHANGED <<queryText, split_docs, embeddings, collection, inserted, printed>>

\* One iteration of "for i, doc_id in enumerate(results['ids'][0])": int()
\* raises ValueError, the list index IndexError.
Proj1Print ==
    /\ UNCHANGED splitVars
    /\ script = "proj1"
    /\ pc = "print"
    /\ Len(printed) < Len(results.ids)
    /\ LET n == Len(printed) + 1
           doc_id == results.ids[n]
           idx == chunk_index(doc_id)
       IN  IF idx < 0 \/ idx >= Len(split_docs)
           THEN /\ exc' = IF idx < 0 THEN "ValueError" ELSE "IndexError"
                /\ exitCode' = 1
                /\ pc' = "exited"
                /\ UNCHANGED printed
           ELSE /\ printed' = Append(printed,
                                     [id |-> doc_id,
                                      distance |-> results.distances[n],
                                      content |-> split_docs[idx + 1].page_content])
                /\ UNCHANGED <<exc, exitCode, pc>>
    /\ UNCHANGED <<pdf, indexFile, script, sizeArg, overlapArg, pagesRead,
                   result, log, calls, faissIndex>>
    /\ UNCHANGED <<queryText, split_docs, embeddings, collection, inserted, results>>

\* Every hit is printed: the script ends.
Proj1Exit ==
    /\ UNCHANGED splitVars
    /\ script = "proj1"
    /\ pc = "print"
    /\ Len(printed) = Len(results.ids)
    /\ pc' = "exited"
    /\ exitCode' = 0
    /\ UNCHANGED <<pdf, indexFile, script, sizeArg, overlapArg, pagesRead,
                   result, log, calls, faissIndex, exc>>
    /\ UNCHANGED queryVars

(* -------------------------- specifications ---------------------------- *)
vars == <<splitVars, stageVars, queryVars>>

SplitIdle ==
    /\ inText = <<>>
    /\ inSize = 1
    /\ inOverlap = 0
    /\ outSpans = <<>>
    /\ applied = FALSE

StageIdle ==
    /\ script = "none"
    /\ pc = "idle"
    /\ sizeArg = DefaultChunkSize
    /\ overlapArg = DefaultChunkOverlap
    /\ pagesRead = <<>>
    /\ result = None
    /\ log = <<>>
    /\ calls = {}
    /\ faissIndex = None
    /\ exc = "none"
    /\ exitCode = -1

\* The splitter as a function of one page text.
SplitNext == ApplySplit

SplitOnlyInit ==
    /\ SplitInit
    /\ StageIdle /\ pdf = None /\ indexFile = None
    /\ QueryIdle /\ queryText = <<>>

SpecSplit == SplitOnlyInit /\ [][SplitNext]_vars

\* The three stage scripts, each on any state of the two files.
Init == StageInit /\ SplitIdle /\ QueryIdle /\ queryText = <<>>

Next ==
    \/ SplitDocumentMain
    \/ CallSplitPdfIntoChunks
    \/ CheckIsFile
    \/ LoadPage
    \/ SplitPages
    \/ Return
    \/ GenerateEmbeddingsScript
    \/ GenerateEmbeddingsStep
    \/ VisualizeMain
    \/ LoadFaissIndex
    \/ VisualizeEmbeddings

Spec == Init /\ [][Next]_vars

\* The queryText script.
QueryInit ==
    /\ StageIdle
    /\ pdf \in {None} \cup {Some(f) : f \in QueryPdfFiles}
    /\ indexFile = None
    /\ SplitIdle
    /\ QueryIdle
    /\ queryText \in QueryTexts

QueryNext ==
    \/ Proj1Script
    \/ Proj1Split
    \/ Proj1Insert
    \/ Proj1Query
    \/ Proj1Print
    \/ Proj1Exit

SpecQuery == QueryInit /\ [][QueryNext]_vars

(* ------------------------- claims: the stages ------------------------- *)
HasError == \E k \in 1..Len(log) : log[k].level = "ERROR"

SplitReturned ==
    script \in {"split_document", "caller"} /\ pc \in {"return", "returned", "exited"}

IsSubstring(x, text) ==
    \E lo \in 1..(Len(text) - Len(x) + 1) : SubSeq(text, lo, lo + Len(x) - 1) = x

\* C3: every chunk is text of the one page whose metadata it carries, chunks
\* come in page order, and an empty page has no chunk.
C3_ChunksStayOnTheirPage ==
    (SplitReturned /\ result # None) =>
        LET chunks == Get(result)
            file == Get(pdf)
        IN  /\ \A k \in 1..Len(chunks) :
                  /\ chunks[k].metadata.page \in 0..(Len(file) - 1)
                  /\ chunks[k].metadata = Page(file, chunks[k].metadata.page).metadata
                  /\ chunks[k].page_content # <<>>
                  /\ IsSubstring(chunks[k].page_content,
                                 file[chunks[k].metadata.page + 1])
            /\ \A k \in 1..(Len(chunks) - 1) :
                  chunks[k].metadata.page <= chunks[k + 1].metadata.page
            /\ \A p \in 1..Len(file) :
                  file[p] = <<>> => \A k \in 1..Len(chunks) :
                                        chunks[k].metadata.page # p - 1

\* C3 witness: a document with an empty page and a page that gave two chunks.
C3_Witness ==
    /\ SplitReturned /\ result # None
    /\ \E p \in 1..Len(Get(pdf)) : Get(pdf)[p] = <<>>
    /\ \E k \in 1..(Len(Get(result)) - 1) :
          Get(result)[k].metadata.page = Get(result)[k + 1].metadata.page

\* C4: for a missing file split_pdf_into_chunks logs the error and returns None
\* without raising and without creating the loader or the splitter; for a file
\* that is there it returns the chunks of all its pages, page after page.
C4_MissingFileReported ==
    SplitReturned =>
        IF pdf = None
        THEN /\ result = None
             /\ HasError
             /\ exc = "none"
             /\ calls = {}
        ELSE /\ result # None
             /\ pagesRead = [p \in 1..Len(Get(pdf)) |-> Page(Get(pdf), p - 1)]
             /\ \A p \in 1..Len(Get(pdf)) :
                   SelectSeq(Get(result), LAMBDA c : c.metadata.page = p - 1)
                     = page_chunks(Page(Get(pdf), p - 1), sizeArg, overlapArg)
             /\ \A k \in 1..(Len(Get(result)) - 1) :
                   Get(result)[k].metadata.page <= Get(result)[k + 1].metadata.page

\* C4 witness: split_document.py ran to its end on a missing file.
C4_Witness ==
    /\ script = "split_document" /\ pc = "exited"
    /\ pdf = None /\ result = None /\ HasError

\* C5: with the input file missing the embedding stage reports it and ends
\* without an exception, without building an index and without writing one.
C5_EmbedStageAbortsCleanly ==
    (script = "generate_embeddings" /\ pc = "exited" /\ pdf = None) =>
        /\ exc = "none"
        /\ HasError
        /\ "FAISS.from_documents" \notin calls
        /\ faissIndex = None

\* C6: with the index file missing or holding no vector, the visualizer logs
\* an error, runs neither the projection nor the plot, and raises nothing.
C6_VisualizerFailsReported ==
    (/\ script = "visualize_embeddings" /\ pc = "exited"
     /\ (indexFile = None \/ Get(indexFile).ntotal = 0)) =>
        /\ HasError
        /\ "PCA.fit_transform" \notin calls
        /\ "plt.show" \notin calls
        /\ exc = "none"

InputFailure ==
    \/ script \in {"split_document", "generate_embeddings"} /\ pdf = None
    \/ script = "visualize_embeddings"
         /\ (indexFile = None \/ Get(indexFile).ntotal = 0)

\* C7: a stage exits with code 0 on success and with another code when its
\* input file is missing or the index is missing or empty.
C7_ExitCodes ==
    pc = "exited" => IF InputFailure THEN exitCode # 0 ELSE exitCode = 0

\* index.search(q, k): the k nearest positions with their distances, nearest
\* first; -1 stands where the index holds fewer than k vectors.
search(idx, q, k) ==
    LET order == nearest_first(idx.xb, q, 1..idx.ntotal)
    IN  [j \in 1..k |-> IF j <= Len(order)
                        THEN <<order[j] - 1, distance(idx.xb[order[j]], q)>>
                        ELSE <<-1, -1>>]

\* C9: once the embedding stage ran on a document, the index file it wrote,
\* read back, holds the vectors of the index built in memory at the same
\* positions and answers every query as that index does.
C9_PersistedIndexRoundTrips ==
    (script = "generate_embeddings" /\ pc = "exited" /\ pdf # None) =>
        /\ faissIndex # None
        /\ indexFile # None
        /\ LET loaded == read_index(Get(indexFile))
               built == Get(faissIndex)
           IN  /\ loaded.ntotal = built.ntotal
               /\ reconstruct_n(loaded, 0, loaded.ntotal)
                    = reconstruct_n(built, 0, built.ntotal)
               /\ \A q \in VecChoices : \A k \in 0..(MaxVecs + 1) :
                     search(loaded, q, k) = search(built, q, k)

(* ---------------------- claims: the query script ---------------------- *)
QueryDone == script = "proj1" /\ pc \in {"print", "exited"} /\ pdf # None

\* The positions of the collection's entries stored under an identifier.
StoredUnder(id) == {p \in 1..Len(collection) : collection[p].id = id}

\* C8: the query returns min(k, n) hits, nearest first, each with the
\* identifier and the distance of a stored entry, none farther than an entry
\* left out; nothing is raised, also for an empty collection, and the loop
\* prints every hit.
C8_QueryReturnsNearest ==
    QueryDone =>
        LET ids == results.ids
            ds == results.distances
            q == encode(queryText)
        IN  /\ Len(ids) = (IF N_RESULTS <= Len(collection) THEN N_RESULTS
                           ELSE Len(collection))
            /\ Len(ds) = Len(ids)
            /\ \A j \in 1..(Len(ds) - 1) : ds[j] <= ds[j + 1]
            /\ \A j \in 1..Len(ids) :
                  \E p \in StoredUnder(ids[j]) :
                      distance(collection[p].embedding, q) = ds[j]
            /\ \A j, k \in 1..Len(ids) : j # k => ids[j] # ids[k]
            /\ \A p \in 1..Len(collection) :
                  (\A j \in 1..Len(ids) : collection[p].id # ids[j]) =>
                      \A j \in 1..Len(ds) :
                          ds[j] <= distance(collection[p].embedding, q)
            /\ exc = "none"
            /\ Len(printed) <= Len(ids)
            /\ pc = "exited" => (exitCode = 0 /\ Len(printed) = Len(ids))

\* C8 witness: the script ended on a collection of fewer than k entries, all
\* of them returned and printed.
C8_Witness ==
    /\ QueryDone /\ pc = "exited"
    /\ Len(collection) \in 1..(N_RESULTS - 1)
    /\ Len(printed) = Len(collection)

\* C10: after the insertion loop chunk i is stored exactly once, as the entry
\* whose identifier reads doc_chunk_<i>, with its own embedding and its
\* source and page; the index parsed from a returned identifier is in range
\* and names the chunk whose embedding was matched, whose text is printed.
C10_IdsNameChunks ==
    QueryDone =>
        /\ Len(collection) = Len(split_docs)
        /\ \A k \in 1..Len(split_docs) :
              /\ StoredUnder(collection[k].id) = {k}
              /\ SubSeq(split(collection[k].id, "_", <<>>), 1, 2)
                   = << <<"d", "o", "c">>, <<"c", "h", "u", "n", "k">> >>
              /\ chunk_index(collection[k].id) = k - 1
              /\ collection[k].embedding = encode(split_docs[k].page_content)
              /\ collection[k].metadata
                   = [source |-> split_docs[k].metadata.source,
                      page |-> split_docs[k].metadata.page]
        /\ \A j \in 1..Len(results.ids) :
              LET idx == chunk_index(results.ids[j])
              IN  /\ idx \in 0..(Len(split_docs) - 1)
                  /\ StoredUnder(results.ids[j]) = {idx + 1}
                  /\ distance(encode(split_docs[idx + 1].page_content),
                              encode(queryText)) = results.distances[j]
        /\ \A j \in 1..Len(printed) :
              \E p \in StoredUnder(printed[j].id) :
                  /\ printed[j].id = results.ids[j]
                  /\ printed[j].content = split_docs[p].page_content
        /\ exc = "none"

\* C10 witness: the script ended after printing a hit with a two-digit index.
C10_Witness ==
    /\ QueryDone /\ pc = "exited"
    /\ \E j \in 1..Len(printed) : chunk_index(printed[j].id) >= 10

====
